---- MODULE Spec2Model ----
(***************************************************************************)
(* Expense Tracker (src/main.py): one SQLite table `expenses` and the five *)
(* tools add_expense, list_expenses, update_expense, delete_expense and    *)
(* get_expense_summary.                                                    *)
(*                                                                         *)
(* Encoding.                                                               *)
(*  - Text that the code measures, parses or compares (dates, currency) is *)
(*    a sequence of one-character strings, so len(), strptime() and the    *)
(*    BINARY collation of SQLite are computed, not assumed.                *)
(*  - An Optional[...] argument / a nullable column is <<>> for None/NULL  *)
(*    and <<v>> for the value v.                                           *)
(*  - amount is a REAL; the model counts it in thousandths (12.50 is       *)
(*    12500), so sub-cent amounts exist and round(x, 2) does real work.    *)
(*  - Storage faults (disk full, "database is locked") are not modelled.   *)
(***************************************************************************)
EXTENDS Integers, Sequences, FiniteSets, TLC

VARIABLES
    expenses,   \* the table: id -> row (PRIMARY KEY id)
    seq,        \* sqlite_sequence.seq of AUTOINCREMENT: largest id ever used
    now,        \* the value datetime('now') yields
    ncalls,     \* number of tool calls made so far
    call,       \* the last tool call: [op |-> ..., args |-> ...]
    result,     \* the dictionary that call returned
    before,     \* the table as it was when that call started
    lastInsert, \* <<[id, args]>> of the newest insert while no write followed it
    sumPc,      \* get_expense_summary, run concurrently: "idle" | "q2"
    sumTotal,   \* its local `total` once the first SELECT has run
    sumSnap,    \* the table that first SELECT read
    during      \* the table states that existed since that first SELECT

vars == <<expenses, seq, now, ncalls, call, result, before, lastInsert,
          sumPc, sumTotal, sumSnap, during>>

----------------------------------------------------------------------------
(* Bounds *)

MaxCalls == 3      \* tool calls per behaviour
MaxClock == 1      \* seconds datetime('now') advances
MaxTargetId == 2   \* update_expense and delete_expense aim at ids 1..MaxTargetId

----------------------------------------------------------------------------
(* Optional values *)

None == <<>>
Some(v) == <<v>>
IsNone(o) == o = <<>>
Val(o) == o[1]

----------------------------------------------------------------------------
(* Characters and text *)

Digits == {"0", "1", "2", "3", "4", "5", "6", "7", "8", "9"}

IsDigit(c) == c \in Digits

DigitVal(c) ==
    CASE c = "0" -> 0 [] c = "1" -> 1 [] c = "2" -> 2 [] c = "3" -> 3
      [] c = "4" -> 4 [] c = "5" -> 5 [] c = "6" -> 6 [] c = "7" -> 7
      [] c = "8" -> 8 [] c = "9" -> 9

\* Code point of a character (the alphabet the model's texts are written in).
Ord(c) ==
    CASE c = " " -> 32 [] c = "-" -> 45
      [] c \in Digits -> 48 + DigitVal(c)
      [] c = "D" -> 68 [] c = "E" -> 69 [] c = "R" -> 82 [] c = "S" -> 83
      [] c = "U" -> 85
      [] c = "d" -> 100 [] c = "e" -> 101 [] c = "r" -> 114 [] c = "s" -> 115
      [] c = "u" -> 117

\* SQLite's BINARY collation on TEXT: memcmp, then the shorter one first.
RECURSIVE TextLess(_, _)
TextLess(s, t) ==
    IF s = <<>> THEN t # <<>>
    ELSE IF t = <<>> THEN FALSE
    ELSE IF Ord(Head(s)) # Ord(Head(t)) THEN Ord(Head(s)) < Ord(Head(t))
    ELSE TextLess(Tail(s), Tail(t))

TextLeq(s, t) == s = t \/ TextLess(s, t)

----------------------------------------------------------------------------
(* datetime.strptime(date, "%Y-%m-%d")                                     *)
(* The format compiles to the anchored regular expression                  *)
(*   (\d\d\d\d)-(1[0-2]|0[1-9]|[1-9])-(3[0-1]|[1-2]\d|0[1-9]|[1-9]| [1-9]) *)
(* text left over after the match, a year of 0 and a day that the month    *)
(* does not have all raise ValueError.                                     *)

MatchesMonth(f) ==
    \/ Len(f) = 2 /\ f[1] = "1" /\ f[2] \in {"0", "1", "2"}
    \/ Len(f) = 2 /\ f[1] = "0" /\ f[2] \in Digits \ {"0"}
    \/ Len(f) = 1 /\ f[1] \in Digits \ {"0"}

MatchesDay(f) ==
    \/ Len(f) = 2 /\ f[1] = "3" /\ f[2] \in {"0", "1"}
    \/ Len(f) = 2 /\ f[1] \in {"1", "2"} /\ f[2] \in Digits
    \/ Len(f) = 2 /\ f[1] = "0" /\ f[2] \in Digits \ {"0"}
    \/ Len(f) = 1 /\ f[1] \in Digits \ {"0"}
    \/ Len(f) = 2 /\ f[1] = " " /\ f[2] \in Digits \ {"0"}

\* int() of a matched field (a leading blank or zero counts for nothing)
RECURSIVE FieldVal(_)
FieldVal(f) ==
    IF f = <<>> THEN 0
    ELSE IF Len(f) = 1 THEN (IF IsDigit(f[1]) THEN DigitVal(f[1]) ELSE 0)
    ELSE 10 * FieldVal(SubSeq(f, 1, Len(f) - 1)) + DigitVal(f[Len(f)])

IsLeap(y) == (y % 4 = 0 /\ y % 100 # 0) \/ y % 400 = 0

DaysInMonth(y, m) ==
    IF m = 2 THEN (IF IsLeap(y) THEN 29 ELSE 28)
    ELSE IF m \in {4, 6, 9, 11} THEN 30 ELSE 31

\* TRUE iff strptime(s, "%Y-%m-%d") returns, FALSE iff it raises ValueError
StrptimeOk(s) ==
    /\ Len(s) >= 8
    /\ \A i \in 1..4 : IsDigit(s[i])
    /\ s[5] = "-"
    /\ \E k \in {1, 2} :
          /\ Len(s) >= 7 + k
          /\ MatchesMonth(SubSeq(s, 6, 5 + k))
          /\ s[6 + k] = "-"
          /\ MatchesDay(SubSeq(s, 7 + k, Len(s)))
          /\ FieldVal(SubSeq(s, 1, 4)) >= 1
          /\ FieldVal(SubSeq(s, 7 + k, Len(s)))
                <= DaysInMonth(FieldVal(SubSeq(s, 1, 4)),
                               FieldVal(SubSeq(s, 6, 5 + k)))

----------------------------------------------------------------------------
(* The table `expenses` (CREATE TABLE, lines 28-40)                        *)
(* A row is [date, created_at, updated_at, amount, currency, category,     *)
(* subcategory, payment_method, merchant, notes]; its id is its key.       *)

\* the table created without CHECK(amount >= 0)
CheckAmountAbsent(amount) == TRUE

\* CHECK(amount >= 0)
CheckAmount(amount) == amount >= 0

\* CHECK(length(currency) = 3)
CheckCurrency(currency) == Len(currency) = 3

\* The CHECK constraints SQLite evaluates on a row about to be written
ConstraintsHold(row) == CheckAmount(row.amount) /\ CheckCurrency(row.currency)

\* id INTEGER PRIMARY KEY AUTOINCREMENT: one more than the largest id the
\* table has ever held, which sqlite_sequence remembers across deletes.
Max(S) == CHOOSE x \in S : \A y \in S : y <= x

NextId(table, s) == Max({s} \cup DOMAIN table) + 1

\* INSERT INTO expenses (date, amount, currency, category, subcategory,
\* payment_method, merchant, notes) VALUES (...): the two timestamps take
\* their DEFAULT (datetime('now')).
NewRow(a, t) ==
    [date |-> a.date, created_at |-> t, updated_at |-> t,
     amount |-> a.amount, currency |-> a.currency, category |-> a.category,
     subcategory |-> a.subcategory, payment_method |-> a.payment_method,
     merchant |-> a.merchant, notes |-> a.notes]

InsertRow(table, id, row) ==
    [i \in DOMAIN table \cup {id} |-> IF i = id THEN row ELSE table[i]]

DeleteRow(table, id) == [i \in DOMAIN table \ {id} |-> table[i]]

----------------------------------------------------------------------------
(* Results: the dictionaries the tools return *)

DateError == "time data does not match format '%Y-%m-%d'"
AmountError == "Amount cannot be negative"
CurrencyError == "Currency must be 3-letter code"
CheckError == "CHECK constraint failed"
LastrowidError == "Database error: 'Connection' object has no attribute 'lastrowid'"

Failed(msg) == [success |-> FALSE, error |-> msg]
NoFields == [success |-> FALSE, message |-> "No fields to update"]
NotFound == [success |-> FALSE, message |-> "Expense not found"]

\* aiosqlite.Connection has execute, commit, total_changes, ... but no
\* attribute `lastrowid` (that one belongs to Cursor), so line 82 raises
\* AttributeError after the commit of line 81.
ConnectionHasLastrowid == FALSE

----------------------------------------------------------------------------
(* add_expense (lines 55-93) *)

\* add_expense without the strptime() line
AddExpenseDoNoDateCheck(a, table, s, t) ==
    IF a.amount < 0
    THEN [expenses |-> table, seq |-> s, result |-> Failed(AmountError)]
    ELSE IF Len(a.currency) # 3
    THEN [expenses |-> table, seq |-> s, result |-> Failed(CurrencyError)]
    ELSE LET new_id == NextId(table, s) IN
         [expenses |-> InsertRow(table, new_id, NewRow(a, t)),
          seq      |-> new_id,
          result   |-> Failed(LastrowidError)]

AddExpenseDo(a, table, s, t) ==
    IF ~StrptimeOk(a.date)
    THEN [expenses |-> table, seq |-> s, result |-> Failed(DateError)]
    ELSE IF a.amount < 0
    THEN [expenses |-> table, seq |-> s, result |-> Failed(AmountError)]
    ELSE IF Len(a.currency) # 3
    THEN [expenses |-> table, seq |-> s, result |-> Failed(CurrencyError)]
    ELSE IF ~ConstraintsHold(NewRow(a, t))
    THEN [expenses |-> table, seq |-> s, result |-> Failed(CheckError)]
    ELSE LET new_id == NextId(table, s) IN
         [expenses |-> InsertRow(table, new_id, NewRow(a, t)),
          seq      |-> new_id,
          result   |-> IF ConnectionHasLastrowid
                       THEN [success |-> TRUE,
                             message |-> "Expense added successfully",
                             id |-> new_id]
                       ELSE Failed(LastrowidError)]

----------------------------------------------------------------------------
(* update_expense (lines 139-194) *)

\* Python truth value of an Optional[str]: None and "" are both false
TruthyStr(o) == ~IsNone(o) /\ Val(o) # ""
TruthyText(o) == ~IsNone(o) /\ Val(o) # <<>>

\* any([date, amount is not None, category, subcategory, payment_method,
\*      merchant, notes, currency])
AnySupplied(u) ==
    \/ TruthyText(u.date)
    \/ ~IsNone(u.amount)
    \/ TruthyStr(u.category)
    \/ TruthyStr(u.subcategory)
    \/ TruthyStr(u.payment_method)
    \/ TruthyStr(u.merchant)
    \/ TruthyStr(u.notes)
    \/ TruthyText(u.currency)

\* UPDATE expenses SET <every argument that is not None>,
\*                     updated_at = datetime('now')
SetFields(row, u, t) ==
    [date           |-> IF IsNone(u.date) THEN row.date ELSE Val(u.date),
     created_at     |-> row.created_at,
     updated_at     |-> t,
     amount         |-> IF IsNone(u.amount) THEN row.amount ELSE Val(u.amount),
     currency       |-> IF IsNone(u.currency) THEN row.currency ELSE Val(u.currency),
     category       |-> IF IsNone(u.category) THEN row.category ELSE Val(u.category),
     subcategory    |-> IF IsNone(u.subcategory) THEN row.subcategory ELSE u.subcategory,
     payment_method |-> IF IsNone(u.payment_method) THEN row.payment_method ELSE u.payment_method,
     merchant       |-> IF IsNone(u.merchant) THEN row.merchant ELSE u.merchant,
     notes          |-> IF IsNone(u.notes) THEN row.notes ELSE u.notes]

UpdateExpenseDo(u, table, t) ==
    IF ~AnySupplied(u)
    THEN [expenses |-> table, result |-> NoFields]
    ELSE IF u.id \notin DOMAIN table
    THEN [expenses |-> table, result |-> NotFound]
    ELSE IF ~ConstraintsHold(SetFields(table[u.id], u, t))
    THEN [expenses |-> table, result |-> Failed(CheckError)]
    ELSE [expenses |-> [table EXCEPT ![u.id] = SetFields(table[u.id], u, t)],
          result   |-> [success |-> TRUE, updated_id |-> u.id]]

----------------------------------------------------------------------------
(* delete_expense (lines 198-208) *)

DeleteExpenseDo(id, table) ==
    IF id \notin DOMAIN table
    THEN [expenses |-> table, result |-> NotFound]
    ELSE [expenses |-> DeleteRow(table, id),
          result   |-> [success |-> TRUE, deleted_id |-> id]]

----------------------------------------------------------------------------
(* list_expenses (lines 97-135) *)

\* params.append(min(limit, 500))  # safety limit
SafetyLimit == 500

Min(a, b) == IF a <= b THEN a ELSE b

\* WHERE date >= ? AND date <= ?, each condition only for a truthy bound
InRange(date, start_date, end_date) ==
    /\ TruthyText(start_date) => TextLeq(Val(start_date), date)
    /\ TruthyText(end_date) => TextLeq(date, Val(end_date))

\* ORDER BY date DESC
RECURSIVE DatesDesc(_)
DatesDesc(S) ==
    IF S = {} THEN <<>>
    ELSE LET m == CHOOSE d \in S : \A e \in S : TextLeq(e, d)
         IN  <<m>> \o DatesDesc(S \ {m})

\* ... , id DESC
IdsDesc(S) ==
    IF S = {} THEN <<>>
    ELSE LET n == Max(S)
         IN  SelectSeq([k \in 1..n |-> n + 1 - k], LAMBDA i : i \in S)

RECURSIVE OrderedIds(_, _)
OrderedIds(table, dates) ==
    IF dates = <<>> THEN <<>>
    ELSE IdsDesc({i \in DOMAIN table : table[i].date = Head(dates)})
            \o OrderedIds(table, Tail(dates))

\* LIMIT n: the first n rows; SQLite reads a negative n as "no limit"
SqlLimit(rows, n) ==
    IF n < 0 THEN rows ELSE SubSeq(rows, 1, Min(n, Len(rows)))

\* SELECT id, date, amount, currency, category, subcategory,
\*        payment_method, merchant, notes, created_at
Selected(table, i) ==
    [id |-> i, date |-> table[i].date, amount |-> table[i].amount,
     currency |-> table[i].currency, category |-> table[i].category,
     subcategory |-> table[i].subcategory,
     payment_method |-> table[i].payment_method,
     merchant |-> table[i].merchant, notes |-> table[i].notes,
     created_at |-> table[i].created_at]

ListExpensesDo(start_date, end_date, limit, table) ==
    LET dates == {d \in {table[i].date : i \in DOMAIN table} :
                     InRange(d, start_date, end_date)}
        ids   == SqlLimit(OrderedIds(table, DatesDesc(dates)),
                          Min(limit, SafetyLimit))
    IN  [success  |-> TRUE,
         count    |-> Len(ids),
         expenses |-> [k \in 1..Len(ids) |-> Selected(table, ids[k])]]

----------------------------------------------------------------------------
(* get_expense_summary (lines 212-244) *)

\* round(x, 2) on thousandths: the nearest hundredth, a tie to the even one.
\* (No amount of the model is odd, so no sum ever lies on a tie, where the
\* binary representation of the float would decide.)
Round2(x) ==
    LET q == x \div 10
        r == x % 10
    IN  IF r < 5 THEN 10 * q
        ELSE IF r > 5 THEN 10 * (q + 1)
        ELSE IF q % 2 = 0 THEN 10 * q ELSE 10 * (q + 1)

RECURSIVE SumAmount(_, _)
SumAmount(table, ids) ==
    IF ids = {} THEN 0
    ELSE LET i == CHOOSE j \in ids : TRUE
         IN  table[i].amount + SumAmount(table, ids \ {i})

\* SELECT MAX(amount) in place of SUM(amount)
SelectTotalMax(table) ==
    IF DOMAIN table = {} THEN 0 ELSE Max({table[i].amount : i \in DOMAIN table})

\* SELECT SUM(amount) AS total FROM expenses; then `or 0.0` for the NULL of
\* an empty table
SelectTotal(table) == SumAmount(table, DOMAIN table)

\* BINARY collation of the texts used as category and subcategory
Collation == <<"", "Food", "Lunch", "Rent">>

Rank(text) == CHOOSE k \in 1..Len(Collation) : Collation[k] = text

\* NULL sorts before every text
KeyLess(g, h) ==
    \/ Rank(g[1]) < Rank(h[1])
    \/ /\ g[1] = h[1]
       /\ \/ IsNone(g[2]) /\ ~IsNone(h[2])
          \/ ~IsNone(g[2]) /\ ~IsNone(h[2]) /\ Rank(Val(g[2])) < Rank(Val(h[2]))

\* GROUP BY category, subcategory: one group per distinct pair, in key order
RECURSIVE KeysAsc(_)
KeysAsc(S) ==
    IF S = {} THEN <<>>
    ELSE LET m == CHOOSE g \in S : \A h \in S \ {g} : KeyLess(g, h)
         IN  <<m>> \o KeysAsc(S \ {m})

GroupRows(table) ==
    LET keys == KeysAsc({<<table[i].category, table[i].subcategory>> :
                            i \in DOMAIN table})
    IN  [k \in 1..Len(keys) |->
            [category    |-> keys[k][1],
             subcategory |-> keys[k][2],
             total       |-> SumAmount(table,
                                {i \in DOMAIN table :
                                    /\ table[i].category = keys[k][1]
                                    /\ table[i].subcategory = keys[k][2]})]]

\* ORDER BY total DESC (groups of equal total stay in key order)
RECURSIVE TotalDesc(_)
TotalDesc(rows) ==
    IF rows = <<>> THEN <<>>
    ELSE LET k == CHOOSE j \in 1..Len(rows) :
                     /\ \A l \in 1..Len(rows) : rows[l].total <= rows[j].total
                     /\ \A l \in 1..(j - 1) : rows[l].total < rows[j].total
         IN  <<rows[k]>> \o TotalDesc(SubSeq(rows, 1, k - 1)
                                       \o SubSeq(rows, k + 1, Len(rows)))

SelectByCategory(table) == TotalDesc(GroupRows(table))

\* the dictionary built from `total` and `rows` (lines 231-242)
SummaryResult(total, rows) ==
    [success     |-> TRUE,
     total       |-> Round2(total),
     by_category |-> [k \in 1..Len(rows) |->
                        [category    |-> rows[k].category,
                         subcategory |-> IF TruthyStr(rows[k].subcategory)
                                         THEN rows[k].subcategory ELSE None,
                         total       |-> Round2(rows[k].total)]]]

----------------------------------------------------------------------------
(* Inputs *)

Date0105 == <<"2", "0", "2", "4", "-", "0", "1", "-", "0", "5">>
Date0120 == <<"2", "0", "2", "4", "-", "0", "1", "-", "2", "0">>
DateUnpadded == <<"2", "0", "2", "4", "-", "1", "-", "5">>         \* strptime accepts it
DateFeb30 == <<"2", "0", "2", "4", "-", "0", "2", "-", "3", "0">>  \* no such day
Date0101 == <<"2", "0", "2", "4", "-", "0", "1", "-", "0", "1">>
Date0131 == <<"2", "0", "2", "4", "-", "0", "1", "-", "3", "1">>

USD == <<"U", "S", "D">>
usd == <<"u", "s", "d">>
US == <<"U", "S">>

\* add_expense("2024-01-05", 12.50, "Food")
AddPlain ==
    [date |-> Date0105, amount |-> 12500, category |-> "Food",
     subcategory |-> None, payment_method |-> None, merchant |-> None,
     notes |-> None, currency |-> USD]

\* every optional argument given, a sub-cent amount, a lower-case currency
AddFull ==
    [date |-> Date0120, amount |-> 4, category |-> "Rent",
     subcategory |-> Some("Lunch"), payment_method |-> Some("card"),
     merchant |-> Some("Cafe"), notes |-> Some("team"), currency |-> usd]

\* empty strings, an unpadded date
AddEmpty ==
    [date |-> DateUnpadded, amount |-> 4, category |-> "Food",
     subcategory |-> Some(""), payment_method |-> None, merchant |-> None,
     notes |-> Some(""), currency |-> USD]

\* a second whole-cent amount, in another category
AddCents == [AddFull EXCEPT !.amount = 2500, !.currency = USD]

AddArgs ==
    {AddPlain, AddFull, AddEmpty, AddCents,
     [AddPlain EXCEPT !.amount = -5000],
     [AddPlain EXCEPT !.date = DateFeb30],
     [AddPlain EXCEPT !.currency = US]}

NoUpdate ==
    [date |-> None, amount |-> None, category |-> None, subcategory |-> None,
     payment_method |-> None, merchant |-> None, notes |-> None,
     currency |-> None]

UpdateFields ==
    {NoUpdate,
     [NoUpdate EXCEPT !.amount = Some(-5000)],
     [NoUpdate EXCEPT !.amount = Some(0)],
     [NoUpdate EXCEPT !.notes = Some("")],
     [NoUpdate EXCEPT !.date = Some(DateFeb30)],
     [NoUpdate EXCEPT !.currency = Some(US)],
     [NoUpdate EXCEPT !.category = Some("Rent")],
     [NoUpdate EXCEPT !.amount = Some(-5000), !.notes = Some("x")]}

TargetIds == 1..MaxTargetId

WithId(f, id) ==
    [id |-> id, date |-> f.date, amount |-> f.amount, category |-> f.category,
     subcategory |-> f.subcategory, payment_method |-> f.payment_method,
     merchant |-> f.merchant, notes |-> f.notes, currency |-> f.currency]

UpdateArgs == {WithId(f, id) : f \in UpdateFields, id \in TargetIds}

\* list_expenses(start_date, end_date, limit)
ListArgs ==
    {[start_date |-> None, end_date |-> None, limit |-> 100],
     [start_date |-> Some(Date0101), end_date |-> Some(Date0131), limit |-> 100],
     [start_date |-> None, end_date |-> None, limit |-> 1],
     [start_date |-> Some(Date0120), end_date |-> None, limit |-> -1]}

----------------------------------------------------------------------------
(* State machine: every tool call runs to completion before the next *)

Init ==
    /\ expenses = <<>>       \* CREATE TABLE on a fresh database file
    /\ seq = 0
    /\ now = 0
    /\ ncalls = 0
    /\ call = [op |-> "none", args |-> <<>>]
    /\ result = [success |-> TRUE]
    /\ before = <<>>
    /\ lastInsert = None
    /\ sumPc = "idle"
    /\ sumTotal = 0
    /\ sumSnap = <<>>
    /\ during = {}

\* what a summary in flight can see of a write that commits
Track(table) == IF sumPc = "q2" THEN during \cup {table} ELSE during

AddExpense ==
    \E a \in AddArgs :
        /\ ncalls < MaxCalls
        /\ LET r == AddExpenseDo(a, expenses, seq, now) IN
              /\ expenses' = r.expenses
              /\ seq' = r.seq
              /\ result' = r.result
              /\ during' = Track(r.expenses)
              /\ lastInsert' = IF r.expenses # expenses
                               THEN Some([id |-> r.seq, args |-> a])
                               ELSE lastInsert
        /\ call' = [op |-> "add_expense", args |-> a]
        /\ before' = expenses
        /\ ncalls' = ncalls + 1
        /\ UNCHANGED <<now, sumPc, sumTotal, sumSnap>>

UpdateExpense ==
    \E u \in UpdateArgs :
        /\ ncalls < MaxCalls
        /\ LET r == UpdateExpenseDo(u, expenses, now) IN
              /\ expenses' = r.expenses
              /\ result' = r.result
              /\ during' = Track(r.expenses)
              /\ lastInsert' = IF r.expenses # expenses THEN None ELSE lastInsert
        /\ call' = [op |-> "update_expense", args |-> u]
        /\ before' = expenses
        /\ ncalls' = ncalls + 1
        /\ UNCHANGED <<seq, now, sumPc, sumTotal, sumSnap>>

DeleteExpense ==
    \E id \in TargetIds :
        /\ ncalls < MaxCalls
        /\ LET r == DeleteExpenseDo(id, expenses) IN
              /\ expenses' = r.expenses
              /\ result' = r.result
              /\ during' = Track(r.expenses)
              /\ lastInsert' = IF r.expenses # expenses THEN None ELSE lastInsert
        /\ call' = [op |-> "delete_expense", args |-> id]
        /\ before' = expenses
        /\ ncalls' = ncalls + 1
        /\ UNCHANGED <<seq, now, sumPc, sumTotal, sumSnap>>

ListExpenses ==
    \E l \in ListArgs :
        /\ ncalls < MaxCalls
        /\ result' = ListExpensesDo(l.start_date, l.end_date, l.limit, expenses)
        /\ call' = [op |-> "list_expenses", args |-> l]
        /\ before' = expenses
        /\ ncalls' = ncalls + 1
        /\ UNCHANGED <<expenses, seq, now, lastInsert, sumPc, sumTotal, sumSnap, during>>

GetExpenseSummary ==
    /\ ncalls < MaxCalls
    /\ sumPc = "idle"
    /\ sumTotal' = SelectTotal(expenses)
    /\ sumSnap' = expenses
    /\ during' = {expenses}
    /\ result' = SummaryResult(SelectTotal(expenses), SelectByCategory(expenses))
    /\ call' = [op |-> "get_expense_summary", args |-> <<>>]
    /\ before' = expenses
    /\ ncalls' = ncalls + 1
    /\ UNCHANGED <<expenses, seq, now, lastInsert, sumPc>>

\* a second passes
Tick ==
    /\ now < MaxClock
    /\ now' = now + 1
    /\ UNCHANGED <<expenses, seq, ncalls, call, result, before, lastInsert,
                   sumPc, sumTotal, sumSnap, during>>

Next ==
    \/ AddExpense
    \/ UpdateExpense
    \/ DeleteExpense
    \/ ListExpenses
    \/ GetExpenseSummary
    \/ Tick

Spec == Init /\ [][Next]_vars

----------------------------------------------------------------------------
(* get_expense_summary among concurrent calls: its two SELECTs run on one  *)
(* connection in autocommit mode, each awaited, with no transaction around *)
(* them, so a write another call commits in between is seen by the second. *)

SummaryQ1 ==
    /\ ncalls < MaxCalls
    /\ sumPc = "idle"
    /\ sumTotal' = SelectTotal(expenses)
    /\ sumSnap' = expenses
    /\ during' = {expenses}
    /\ sumPc' = "q2"
    /\ ncalls' = ncalls + 1
    /\ UNCHANGED <<expenses, seq, now, call, result, before, lastInsert>>

\* both SELECTs inside one read transaction: the second query would read
\* the table the first one read
SummaryQ2Snapshot ==
    /\ sumPc = "q2"
    /\ result' = SummaryResult(sumTotal, SelectByCategory(sumSnap))
    /\ call' = [op |-> "get_expense_summary", args |-> <<>>]
    /\ before' = expenses
    /\ sumPc' = "idle"
    /\ UNCHANGED <<expenses, seq, now, ncalls, lastInsert, sumTotal, sumSnap, during>>

SummaryQ2 ==
    /\ sumPc = "q2"
    /\ result' = SummaryResult(sumTotal, SelectByCategory(expenses))
    /\ call' = [op |-> "get_expense_summary", args |-> <<>>]
    /\ before' = expenses
    /\ sumPc' = "idle"
    /\ UNCHANGED <<expenses, seq, now, ncalls, lastInsert, sumTotal, sumSnap, during>>

NextConc ==
    \/ AddExpense
    \/ UpdateExpense
    \/ DeleteExpense
    \/ SummaryQ1
    \/ SummaryQ2
    \/ Tick

SpecConc == Init /\ [][NextConc]_vars

----------------------------------------------------------------------------
(* list_expenses on large tables: the table n successful inserts leave     *)

BulkRow(i) ==
    NewRow([AddPlain EXCEPT !.amount = 4,
                            !.date = IF i % 3 = 0 THEN Date0120
                                     ELSE IF i % 3 = 1 THEN Date0105
                                     ELSE DateUnpadded], 0)

BulkTable(n) == [i \in 1..n |-> BulkRow(i)]

BulkSizes ==
    {1, SafetyLimit - 1, SafetyLimit, SafetyLimit + 1,
     2 * SafetyLimit, 2 * SafetyLimit + 1}

BulkListArgs ==
    {[start_date |-> r[1], end_date |-> r[2], limit |-> l] :
        r \in {<<None, None>>, <<Some(Date0101), Some(Date0131)>>},
        l \in {-1, 0, 1, 100, SafetyLimit, SafetyLimit + 1,
               2 * SafetyLimit, 2 * SafetyLimit + 1}}

InitBulk ==
    /\ \E n \in BulkSizes : expenses = BulkTable(n) /\ seq = n
    /\ now = 0
    /\ ncalls = 0
    /\ call = [op |-> "none", args |-> <<>>]
    /\ result = [success |-> TRUE]
    /\ before = <<>>
    /\ lastInsert = None
    /\ sumPc = "idle"
    /\ sumTotal = 0
    /\ sumSnap = <<>>
    /\ during = {}

ListExpensesBulk ==
    \E l \in BulkListArgs :
        /\ ncalls < MaxCalls
        /\ result' = ListExpensesDo(l.start_date, l.end_date, l.limit, expenses)
        /\ call' = [op |-> "list_expenses", args |-> l]
        /\ before' = expenses
        /\ ncalls' = ncalls + 1
        /\ UNCHANGED <<expenses, seq, now, lastInsert, sumPc, sumTotal, sumSnap, during>>

NextBulk == ListExpensesBulk

SpecBulk == InitBulk /\ [][NextBulk]_vars

----------------------------------------------------------------------------
(* Vocabulary of the properties *)

IsCall(op) == call.op = op

\* the preconditions of add_expense
ValidAddArgs(a) == StrptimeOk(a.date) /\ a.amount >= 0 /\ Len(a.currency) = 3

\* <<year, month, day>> of a text strptime accepts
CalendarDate(s) ==
    LET k == CHOOSE j \in {1, 2} : Len(s) >= 7 + j /\ s[6 + j] = "-"
    IN  <<FieldVal(SubSeq(s, 1, 4)), FieldVal(SubSeq(s, 6, 5 + k)),
          FieldVal(SubSeq(s, 7 + k, Len(s)))>>

CalendarLeq(s, t) ==
    LET a == CalendarDate(s)
        b == CalendarDate(t)
    IN  \/ a[1] < b[1]
        \/ a[1] = b[1] /\ a[2] < b[2]
        \/ a[1] = b[1] /\ a[2] = b[2] /\ a[3] <= b[3]

UpperChar(c) ==
    CASE c = "u" -> "U" [] c = "s" -> "S" [] c = "d" -> "D"
      [] c = "e" -> "E" [] c = "r" -> "R" [] OTHER -> c

Upper(text) == [k \in 1..Len(text) |-> UpperChar(text[k])]

RECURSIVE SumTotals(_)
SumTotals(entries) ==
    IF entries = <<>> THEN 0
    ELSE Head(entries).total + SumTotals(Tail(entries))

SuppliedSome(u) ==
    \E f \in {"date", "amount", "category", "subcategory", "payment_method",
              "merchant", "notes", "currency"} : ~IsNone(u[f])

----------------------------------------------------------------------------
(* C1: add_expense called with a negative amount, a date that strptime     *)
(* rejects or a currency whose length is not 3 returns success = false and *)
(* leaves the table exactly as it was.                                     *)
C1_InvalidAddWritesNothing ==
    (IsCall("add_expense") /\ ~ValidAddArgs(call.args))
        => (result.success = FALSE /\ expenses = before)

\* an invalid add_expense against a table that already holds rows
C1_Witness ==
    /\ IsCall("add_expense")
    /\ ~ValidAddArgs(call.args)
    /\ before # <<>>
    /\ result.success = FALSE

(* C2: every add_expense call with valid inputs returns success = true and *)
(* the id of the row it inserted, an id larger than any id handed out      *)
(* before (so never one that delete_expense freed).                        *)
C2_ValidAddReturnsFreshId ==
    (IsCall("add_expense") /\ ValidAddArgs(call.args))
        => /\ result.success = TRUE
           /\ "id" \in DOMAIN result
           /\ result.id = seq
           /\ result.id \notin DOMAIN before
           /\ DOMAIN expenses = DOMAIN before \cup {result.id}
           /\ \A i \in DOMAIN before : i < result.id

(* C3: round trip. After add_expense has inserted an expense into a table  *)
(* with no other row in January 2024, list_expenses("2024-01-01",          *)
(* "2024-01-31") returns exactly one record, whose date, amount, category, *)
(* subcategory, payment_method, merchant and notes are the supplied values *)
(* and whose currency is the supplied currency in upper case.              *)
C3_RoundTrip ==
    (/\ IsCall("list_expenses")
     /\ call.args.start_date = Some(Date0101)
     /\ call.args.end_date = Some(Date0131)
     /\ call.args.limit >= 1
     /\ lastInsert # None
     /\ CalendarLeq(Date0101, Val(lastInsert).args.date)
     /\ CalendarLeq(Val(lastInsert).args.date, Date0131)
     /\ \A i \in DOMAIN expenses \ {Val(lastInsert).id} :
            /\ ~InRange(expenses[i].date, Some(Date0101), Some(Date0131))
            /\ StrptimeOk(expenses[i].date)
                  => ~(/\ CalendarLeq(Date0101, expenses[i].date)
                       /\ CalendarLeq(expenses[i].date, Date0131)))
        => /\ result.success = TRUE
           /\ result.count = 1
           /\ Len(result.expenses) = 1
           /\ LET rec == result.expenses[1]
                  a   == Val(lastInsert).args
              IN  /\ rec.id = Val(lastInsert).id
                  /\ rec.date = a.date
                  /\ rec.amount = a.amount
                  /\ rec.category = a.category
                  /\ rec.subcategory = a.subcategory
                  /\ rec.payment_method = a.payment_method
                  /\ rec.merchant = a.merchant
                  /\ rec.notes = a.notes
                  /\ rec.currency = Upper(a.currency)

(* C4: update_expense on an existing id with a negative amount returns a   *)
(* failure (success = false with an error, neither "not found" nor "no     *)
(* fields") and leaves every row, the targeted one's amount and updated_at *)
(* included, as it was.                                                    *)
C4_NegativeUpdateRejected ==
    (/\ IsCall("update_expense")
     /\ call.args.id \in DOMAIN before
     /\ ~IsNone(call.args.amount)
     /\ Val(call.args.amount) < 0)
        => /\ result.success = FALSE
           /\ "error" \in DOMAIN result
           /\ expenses = before

\* update_expense(id, amount=-5) on the row holding 12.50, a second after
\* that row was last written
C4_Witness ==
    /\ IsCall("update_expense")
    /\ call.args.id \in DOMAIN before
    /\ call.args.amount = Some(-5000)
    /\ before[call.args.id].amount = 12500
    /\ before[call.args.id].updated_at < now
    /\ result.success = FALSE
    /\ expenses[call.args.id].amount = 12500

(* C5: update_expense returns "No fields to update" exactly when every     *)
(* optional argument is None, and then writes nothing; with at least one   *)
(* argument that is not None (an empty string or amount 0 included) it     *)
(* does not return that result.                                            *)
C5_NoFieldsIffNoneSupplied ==
    IsCall("update_expense")
        => /\ (result = NoFields) <=> ~SuppliedSome(call.args)
           /\ (result = NoFields) => expenses = before

(* C6: delete_expense(id) and update_expense(id, at least one field) on an *)
(* id that matches no row return the "not found" result and leave the      *)
(* table as it was; delete_expense on a matching id removes exactly that   *)
(* row.                                                                    *)
C6_MissingIdNotFound ==
    /\ (IsCall("delete_expense") /\ call.args \notin DOMAIN before)
          => (result = NotFound /\ expenses = before)
    /\ (IsCall("update_expense") /\ SuppliedSome(call.args)
                                 /\ call.args.id \notin DOMAIN before)
          => (result = NotFound /\ expenses = before)
    /\ (IsCall("delete_expense") /\ call.args \in DOMAIN before)
          => /\ result.success = TRUE
             /\ DOMAIN expenses = DOMAIN before \ {call.args}
             /\ \A i \in DOMAIN expenses : expenses[i] = before[i]


\* date DESC, id DESC: the record r comes before the record q
ListedBefore(r, q) ==
    \/ TextLess(q.date, r.date)
    \/ q.date = r.date /\ q.id < r.id

(* C7: list_expenses caps the effective limit at 1000: it never returns    *)
(* more than 1000 rows, and for a requested limit L >= 0 it returns the    *)
(* first min(L, 1000) matching rows in (date descending, id descending)    *)
(* order, or all matching rows if there are fewer.                         *)
C7_CapsAtThousand ==
    IsCall("list_expenses") =>
        LET a        == call.args
            matching == {i \in DOMAIN before :
                            InRange(before[i].date, a.start_date, a.end_date)}
            rows     == result.expenses
            listed   == {rows[k].id : k \in 1..Len(rows)}
        IN  /\ result.count = Len(rows)
            /\ result.count <= 1000
            /\ listed \subseteq matching
            /\ \A k \in 1..(Len(rows) - 1) : ListedBefore(rows[k], rows[k + 1])
            /\ a.limit >= 0 =>
                  /\ result.count = Min(Min(a.limit, 1000), Cardinality(matching))
                  /\ \A i \in matching \ listed :
                        Len(rows) > 0 =>
                            ListedBefore(rows[Len(rows)], Selected(before, i))

(* C8: the total get_expense_summary returns equals the sum of the totals  *)
(* of the by_category entries it returns, for every table content.         *)
C8_TotalIsSumOfBreakdown ==
    IsCall("get_expense_summary")
        => result.total = SumTotals(result.by_category)

(* C8, amended: ... for every table content whose amounts all are whole    *)
(* cents (no more than 2 decimal places); the total of an empty table is 0 *)
C8_TotalIsSumOfBreakdownWholeCents ==
    (/\ IsCall("get_expense_summary")
     /\ \A i \in DOMAIN before : before[i].amount % 10 = 0)
        => /\ result.total = SumTotals(result.by_category)
           /\ before = <<>> => result.total = 0

\* a summary of whole-cent amounts in two or more groups
C8_Witness ==
    /\ IsCall("get_expense_summary")
    /\ \A i \in DOMAIN before : before[i].amount % 10 = 0
    /\ Len(result.by_category) >= 2
    /\ result.total > 0

(* C9: every stored row has a date that parses as YYYY-MM-DD, an amount    *)
(* >= 0 and a currency of exactly 3 characters, in every reachable state.  *)
C9_RowsSatisfyConstraints ==
    \A i \in DOMAIN expenses :
        /\ StrptimeOk(expenses[i].date)
        /\ expenses[i].amount >= 0
        /\ Len(expenses[i].currency) = 3

(* C10: get_expense_summary is snapshot-consistent: whatever commits       *)
(* between its two queries, the total and the breakdown it returns both    *)
(* describe one table state that existed during the call.                  *)
C10_SnapshotConsistent ==
    (IsCall("get_expense_summary") /\ sumPc = "idle")
        => \E table \in during :
              result = SummaryResult(SelectTotal(table), SelectByCategory(table))

(* C10, amended: the total describes the table as the first query read it  *)
(* and the breakdown the table as the second query read it; they describe  *)
(* one table state when no write committed in between.                     *)
C10_EachQueryItsOwnState ==
    (IsCall("get_expense_summary") /\ sumPc = "idle")
        => /\ result.total = Round2(SelectTotal(sumSnap))
           /\ result.by_category
                 = SummaryResult(0, SelectByCategory(before)).by_category
           /\ sumSnap \in during /\ before \in during
           /\ during = {sumSnap} => before = sumSnap

\* a write committed between the two queries, and the returned total is not
\* the sum of the returned breakdown
C10_Witness ==
    /\ IsCall("get_expense_summary")
    /\ sumPc = "idle"
    /\ sumSnap # before
    /\ \A t \in during : \A i \in DOMAIN t : t[i].amount % 10 = 0
    /\ result.total # SumTotals(result.by_category)

====
